---------------------------- MODULE Spec2Model ----------------------------
(***************************************************************************)
(* A model of scrub (src/scrub.c): collapse a directory tree by removing   *)
(* the files matched by name or extension and every directory found empty. *)
(*                                                                         *)
(* The file system is a finite tree of nodes.  A path is identified with   *)
(* the node it names; file names are sequences of one-character strings,   *)
(* so that strrchr/strchrnul/strcmp are computed as libc computes them.    *)
(* main() may be run several times in succession on the same tree          *)
(* (MaxRuns), which is what the claims about idempotence and about         *)
(* simulate mode versus a real run compare.                                *)
(*                                                                         *)
(* Not modelled: the heap (the under-sized malloc/realloc of lines 186,    *)
(* 188, 225, 227 and 391 are taken to hold what was copied into them),     *)
(* --verbose output, and the option errors of getopt (lines 502-538).      *)
(***************************************************************************)
EXTENDS Integers, Sequences, FiniteSets, TLC

(***************************************************************************)
(* Bounds of the model.                                                    *)
(***************************************************************************)
\* number of successive invocations of main() on the same tree
MaxRuns == 2

\* number of nested activations of Directory_process the model can hold; the
\* tree is three directories deep
MaxDepth == 4

(***************************************************************************)
(* Program constants.                                                      *)
(***************************************************************************)
\* static const u32 ENONE = 0
ENONE == 0

\* <errno.h> values the walk can meet
Errno == [ENOENT |-> 2, EACCES |-> 13, ENOTDIR |-> 20, EISDIR |-> 21, ENOTEMPTY |-> 39]

(***************************************************************************)
(* The tree.  Node 0 stands for "no node" (the parent of a root argument,  *)
(* the target of a dangling link).                                         *)
(*                                                                         *)
(*    1 root/            argv root, a directory                            *)
(*    2 root/a/                                                            *)
(*    3 root/a/b/                                                          *)
(*    4 root/a/b/<leaf>                                                    *)
(*    5 root/.git/                                                         *)
(*    6 root/.git/x.tmp                                                    *)
(*    7 root/<leaf>                                                        *)
(*    8 <leaf>           argv root                                         *)
(***************************************************************************)
Nodes == 1..8

Parent == <<0, 1, 2, 3, 1, 5, 1, 0>>

\* argv + optind: the root arguments, in order
files == <<1, 8>>

\* a path that names nothing (yet the path has a last component)
Missing(name) ==
    [present |-> FALSE, name |-> name, type |-> "REG", dknown |-> TRUE, target |-> 0]

Entry(name, type, dknown, target) ==
    [present |-> TRUE, name |-> name, type |-> type, dknown |-> dknown, target |-> target]

DirEntry(name) == Entry(name, "DIR", TRUE, 0)

\* root/a/b/<leaf>: nothing, a regular file, a named pipe, a dangling symbolic
\* link, a regular file whose type readdir() does not report
Leaf4 ==
    { Missing(<<"f", ".", "t", "m", "p">>),
      Entry(<<"f", ".", "t", "m", "p">>, "REG", TRUE, 0),
      Entry(<<"f", ".", "t", "m", "p">>, "FIFO", TRUE, 0),
      Entry(<<"d", ".", "a", ".", "t", "m", "p">>, "LNK", TRUE, 0),
      Entry(<<"t", "m", "p">>, "REG", FALSE, 0) }

\* root/<leaf>: regular files, a symbolic link to root/, a socket
Leaf7 ==
    { Entry(<<"k", ".", "t", "x", "t">>, "REG", TRUE, 0),
      Entry(<<"c", "o", "r", "e">>, "REG", TRUE, 0),
      Entry(<<"l", ".", "t", "m", "p">>, "LNK", TRUE, 1),
      Entry(<<".", "T", "M", "P">>, "SOCK", TRUE, 0) }

\* the second root argument: a path that names nothing, a regular file, a named
\* pipe, an empty directory
Leaf8 ==
    { Missing(<<"c", "o", "r", "e">>),
      Entry(<<"c", "o", "r", "e">>, "REG", TRUE, 0),
      Entry(<<"p", ".", "t", "m", "p">>, "FIFO", TRUE, 0),
      DirEntry(<<"e">>) }

Tree(l4, l7, l8) ==
    [n \in Nodes |->
       CASE n = 1 -> DirEntry(<<"r", "o", "o", "t">>)
         [] n = 2 -> DirEntry(<<"a">>)
         [] n = 3 -> DirEntry(<<"b">>)
         [] n = 4 -> l4
         [] n = 5 -> DirEntry(<<".", "g", "i", "t">>)
         [] n = 6 -> Entry(<<"x", ".", "t", "m", "p">>, "REG", TRUE, 0)
         [] n = 7 -> l7
         [] n = 8 -> l8]

\* what the environment refuses: opendir() of a directory, unlink()/rmdir() of an entry
Refusing(noOpen, noRemove) == [noOpen |-> noOpen, noRemove |-> noRemove]

\* the trees and environments a run starts from: every tree in an environment
\* that refuses nothing, and the trees with a plain root/k.txt in one that
\* refuses to open or to remove one entry
Scenarios ==
    { [tree |-> Tree(l4, l7, l8), faults |-> Refusing({}, {})] :
        l4 \in Leaf4, l7 \in Leaf7, l8 \in Leaf8 }
    \cup
    { [tree |-> Tree(l4, Entry(<<"k", ".", "t", "x", "t">>, "REG", TRUE, 0),
                     Entry(<<"c", "o", "r", "e">>, "REG", TRUE, 0)),
       faults |-> flt] :
        l4 \in Leaf4,
        flt \in {Refusing({1}, {}), Refusing({2}, {}), Refusing({}, {4}), Refusing({}, {3})} }
    \cup
    { [tree |-> Tree(l4, Entry(<<"k", ".", "t", "x", "t">>, "REG", TRUE, 0),
                     DirEntry(<<"e">>)),
       faults |-> Refusing({8}, {})] :
        l4 \in Leaf4 }

\* what -c and -C put in the configuration
ClobberLists ==
    { [clobberNames |-> <<<<"c", "o", "r", "e">>>>,
       clobberExtensions |-> <<<<"t", "m", "p">>>>],
      [clobberNames |-> <<<<"t", "m", "p">>>>,
       clobberExtensions |-> <<<<"t", "x", "t">>, <<"t", "m", "p">>>>],
      [clobberNames |-> <<>>, clobberExtensions |-> <<>>] }

VARIABLES
    fs,          \* the file system: node -> entry
    faults,      \* what the environment refuses
    config,      \* the Configuration main() builds
    pc,          \* where main() is: "idle", "loop", "walk"
    run,         \* number of invocations of main() so far
    index,       \* main()'s index into files
    dirty,       \* main()'s dirty flag
    stack,       \* the activations of Directory_process, innermost last
    exitStatus,  \* what the last finished main() returned
    cur,         \* what the current (or last finished) run did
    prev         \* what the run before it did

vars == <<fs, faults, config, pc, run, index, dirty, stack, exitStatus, cur, prev>>

Children(f, d) == {n \in Nodes : Parent[n] = d /\ f[n].present}

RECURSIVE Ancestors(_)
Ancestors(n) == IF Parent[n] = 0 THEN {} ELSE {Parent[n]} \cup Ancestors(Parent[n])

(***************************************************************************)
(* libc, as far as the program uses it.                                    *)
(***************************************************************************)
\* strrchr(s, c): the index of the last c in s, 0 (NULL) when there is none
strrchr(s, c) ==
    LET hits == {i \in 1..Len(s) : s[i] = c}
    IN  IF hits = {} THEN 0 ELSE CHOOSE i \in hits : \A j \in hits : j <= i

\* strchrnul(s, c): the index of the first c in s, that of the terminator when none
strchrnul(s, c) ==
    LET hits == {i \in 1..Len(s) : s[i] = c}
    IN  IF hits = {} THEN Len(s) + 1 ELSE CHOOSE i \in hits : \A j \in hits : i <= j

\* strcmp(a, b) == 0
strcmp0(a, b) == a = b

\* the node a path designates once a final symbolic link is followed, 0 if none
Resolve(f, path) ==
    IF path = 0 \/ ~f[path].present THEN 0
    ELSE IF f[path].type # "LNK" THEN path
    ELSE IF f[path].target = 0 \/ ~f[f[path].target].present THEN 0
    ELSE f[path].target

\* S_ISDIR(statBuffer.st_mode) after stat(path, &statBuffer), whose result the
\* program never tests: when stat() fails the buffer is uninitialised and the
\* test may go either way
S_ISDIR(f, path) ==
    IF Resolve(f, path) = 0 THEN BOOLEAN ELSE {f[Resolve(f, path)].type = "DIR"}

\* d_type taken from stat(), which follows symbolic links
d_type_followed(f, n) ==
    IF ~f[n].dknown THEN "DT_UNKNOWN"
    ELSE IF Resolve(f, n) # 0 /\ f[Resolve(f, n)].type = "DIR" THEN "DT_DIR"
    ELSE CASE f[n].type = "DIR"  -> "DT_DIR"
           [] f[n].type = "REG"  -> "DT_REG"
           [] f[n].type = "FIFO" -> "DT_FIFO"
           [] f[n].type = "LNK"  -> "DT_LNK"
           [] f[n].type = "SOCK" -> "DT_SOCK"

\* currentEntry->d_type
d_type(f, n) ==
    IF ~f[n].dknown THEN "DT_UNKNOWN"
    ELSE CASE f[n].type = "DIR"  -> "DT_DIR"
           [] f[n].type = "REG"  -> "DT_REG"
           [] f[n].type = "FIFO" -> "DT_FIFO"
           [] f[n].type = "LNK"  -> "DT_LNK"
           [] f[n].type = "SOCK" -> "DT_SOCK"

\* opendir(path): 0 and the entries of the stream, or the errno
opendir(f, flt, path) ==
    LET d == Resolve(f, path)
    IN  IF d = 0 THEN [errno |-> Errno.ENOENT, entries |-> {}]
        ELSE IF f[d].type # "DIR" THEN [errno |-> Errno.ENOTDIR, entries |-> {}]
        ELSE IF d \in flt.noOpen THEN [errno |-> Errno.EACCES, entries |-> {}]
        ELSE [errno |-> ENONE, entries |-> Children(f, d)]

Gone(f, path) == [f EXCEPT ![path].present = FALSE]

\* rmdir(path)
rmdir(f, flt, path) ==
    IF ~f[path].present THEN [rc |-> -1, errno |-> Errno.ENOENT, fs |-> f]
    ELSE IF f[path].type # "DIR" THEN [rc |-> -1, errno |-> Errno.ENOTDIR, fs |-> f]
    ELSE IF Children(f, path) # {} THEN [rc |-> -1, errno |-> Errno.ENOTEMPTY, fs |-> f]
    ELSE IF path \in flt.noRemove THEN [rc |-> -1, errno |-> Errno.EACCES, fs |-> f]
    ELSE [rc |-> 0, errno |-> ENONE, fs |-> Gone(f, path)]

\* unlink(path)
unlink(f, flt, path) ==
    IF ~f[path].present THEN [rc |-> -1, errno |-> Errno.ENOENT, fs |-> f]
    ELSE IF f[path].type = "DIR" THEN [rc |-> -1, errno |-> Errno.EISDIR, fs |-> f]
    ELSE IF path \in flt.noRemove THEN [rc |-> -1, errno |-> Errno.EACCES, fs |-> f]
    ELSE [rc |-> 0, errno |-> ENONE, fs |-> Gone(f, path)]

\* basename(path)
basename(f, path) == f[path].name

(***************************************************************************)
(* Policy.                                                                 *)
(***************************************************************************)
RECURSIVE Search(_, _, _)
\* the while loops of lines 206-212 and 242-248; index counts from 0
Search(list, s, idx) ==
    IF idx < Len(list)
    THEN IF strcmp0(s, list[idx + 1]) THEN TRUE ELSE Search(list, s, idx + 1)
    ELSE FALSE

Configuration_shouldClobberExtension(cfg, extension) ==
    Search(cfg.clobberExtensions, extension, 0)

Configuration_shouldClobberName(cfg, name) ==
    Search(cfg.clobberNames, name, 0)

\* File_shouldClobber comparing the whole name with the extensions when it has no '.'
File_shouldClobber_noDot(cfg, bname) ==
    IF Configuration_shouldClobberName(cfg, bname) THEN TRUE
    ELSE Configuration_shouldClobberExtension(
             cfg, SubSeq(bname, strrchr(bname, ".") + 1, Len(bname)))

File_shouldClobber(cfg, bname) ==
    IF Configuration_shouldClobberName(cfg, bname) THEN TRUE
    ELSE LET extensionStart == strrchr(bname, ".")
         IN  IF extensionStart # 0
             THEN Configuration_shouldClobberExtension(
                      cfg, SubSeq(bname, extensionStart + 1, Len(bname)))
             ELSE FALSE

\* File_isHidden testing strchrnul's result as one tests strchr's, for non-NULL
File_isHidden_found(bname) == strchrnul(bname, ".") # 0

\* (basename - strchrnul(basename, '.')) == 0, the name starting at index 1
File_isHidden(bname) == (1 - strchrnul(bname, ".")) = 0

(***************************************************************************)
(* Removal.  An outcome is what one call did: its return value, the file   *)
(* system it leaves, and what it wrote to stderr -- the "unlink(path)"     *)
(* lines of simulate mode (lines) and the error messages (errors).         *)
(***************************************************************************)
\* File_unlink without the test of config->simulate
File_unlink_always(cfg, f, flt, path) ==
    {[rc |-> r.rc, errno |-> r.errno, fs |-> r.fs, lines |-> <<>>] :
       r \in {IF isdir THEN rmdir(f, flt, path) ELSE unlink(f, flt, path) :
                isdir \in S_ISDIR(f, path)}}

File_unlink(cfg, f, flt, path) ==
    IF cfg.simulate
    THEN {[rc |-> 0, errno |-> ENONE, fs |-> f, lines |-> <<path>>]}
    ELSE {[rc |-> r.rc, errno |-> r.errno, fs |-> r.fs, lines |-> <<>>] :
            r \in {IF isdir THEN rmdir(f, flt, path) ELSE unlink(f, flt, path) :
                     isdir \in S_ISDIR(f, path)}}

Message(text, path, errno) == [text |-> text, path |-> path, errno |-> errno]

File_process(cfg, f, flt, path) ==
    LET fileName == basename(f, path)
        shouldClobber == File_shouldClobber(cfg, fileName)
    IN  IF shouldClobber
        THEN {IF u.rc = -1
              THEN [status |-> u.errno, fs |-> u.fs, lines |-> u.lines,
                    errors |-> {Message("Could not unlink", path, u.errno)}]
              ELSE [status |-> ENONE, fs |-> u.fs, lines |-> u.lines, errors |-> {}] :
                u \in File_unlink(cfg, f, flt, path)}
        ELSE {[status |-> ENONE, fs |-> f, lines |-> <<>>, errors |-> {}]}

\* Directory_isEmpty without the allowance for "." and ".."
Directory_isEmpty_noDots(f, flt, path) ==
    LET dir == opendir(f, flt, path)
        n == 2 + Cardinality(dir.entries)
    IN  IF dir.errno = ENONE
        THEN [empty |-> n = 0, errors |-> {}]
        ELSE [empty |-> FALSE,
              errors |-> {Message("Directory_isEmpty: could not open directory",
                                  path, dir.errno)}]

\* Directory_isEmpty answering "empty" for a directory it could not open
Directory_isEmpty_unopened(f, flt, path) ==
    LET dir == opendir(f, flt, path)
    IN  [empty |-> Cardinality(dir.entries) = 0,
         errors |-> IF dir.errno = ENONE THEN {}
                    ELSE {Message("Directory_isEmpty: could not open directory",
                                  path, dir.errno)}]

\* Directory_isEmpty: index counts the entries read, "." and ".." included, and
\* the loop stops at the third
Directory_isEmpty(f, flt, path) ==
    LET dir == opendir(f, flt, path)
        n == 2 + Cardinality(dir.entries)
        idx == IF n > 2 THEN 3 ELSE n
    IN  IF dir.errno = ENONE
        THEN [empty |-> idx <= 2, errors |-> {}]
        ELSE [empty |-> FALSE,
              errors |-> {Message("Directory_isEmpty: could not open directory",
                                  path, dir.errno)}]

(***************************************************************************)
(* What a run did, kept for the properties: the tree before and after it,  *)
(* stderr (lines, errors), the paths Directory_process was called on       *)
(* (called) and what it returned (rets), the entries readdir() handed to   *)
(* the switch (seen), the roots main() handled (roots), and the entries    *)
(* removed, in order (unlinked).                                           *)
(***************************************************************************)
Fresh(sim, f) ==
    [done |-> FALSE, simulate |-> sim, before |-> f, after |-> f, exit |-> ENONE,
     lines |-> <<>>, errors |-> {}, called |-> {}, rets |-> {}, seen |-> {},
     roots |-> {}, unlinked |-> <<>>]

\* the entry a call removed, if any
Diff(f, g) ==
    IF \E n \in Nodes : f[n].present /\ ~g[n].present
    THEN <<CHOOSE n \in Nodes : f[n].present /\ ~g[n].present>>
    ELSE <<>>

Noted(c, f, g, lines, errors) ==
    [c EXCEPT !.lines = @ \o lines, !.errors = @ \cup errors,
              !.unlinked = @ \o Diff(f, g)]

\* a new activation of Directory_process(path): lines 413-416 and 480-482
Activation(f, flt, path) ==
    LET dir == opendir(f, flt, path)
    IN  [path |-> path, pending |-> dir.entries, result |-> dir.errno]

Top == stack[Len(stack)]

Pop == SubSeq(stack, 1, Len(stack) - 1)

\* the activation on top, with entry e read off its stream
Advance(e) == [stack EXCEPT ![Len(stack)].pending = @ \ {e}]

(***************************************************************************)
(* The initial states: a tree, an environment, and the configuration       *)
(* Configuration_new() returns followed by the -c, -C, -H and              *)
(* --preserve-special options of the command line.                         *)
(***************************************************************************)
Configuration_new ==
    [simulate |-> FALSE, preserveHidden |-> FALSE, preserveSpecial |-> FALSE,
     clobberExtensions |-> <<>>, clobberNames |-> <<>>]

Start(scenarios) ==
    /\ \E sc \in scenarios : fs = sc.tree /\ faults = sc.faults
    /\ \E l \in ClobberLists, h \in BOOLEAN, sp \in BOOLEAN :
          config = [Configuration_new EXCEPT
                       !.clobberExtensions = l.clobberExtensions,
                       !.clobberNames = l.clobberNames,
                       !.preserveHidden = h,
                       !.preserveSpecial = sp]
    /\ pc = "idle"
    /\ run = 0
    /\ index = 0
    /\ dirty = FALSE
    /\ stack = <<>>
    /\ exitStatus = ENONE
    /\ cur = Fresh(FALSE, fs)
    /\ prev = Fresh(FALSE, fs)

Init == Start(Scenarios)

\* the scenarios in which root/ holds a symbolic link to itself
LinkScenarios == {sc \in Scenarios : sc.tree[7].type = "LNK" /\ sc.tree[7].target = 1}

LinkInit == Start(LinkScenarios)

(***************************************************************************)
(* main()                                                                  *)
(***************************************************************************)
\* the command lines of successive runs differ in --simulate only: a simulated
\* run may be followed by a real one
Simulate == IF run = 0 \/ config.simulate THEN BOOLEAN ELSE {FALSE}

\* lines 495-553: the options are parsed, the loop over the roots begins
MainStart ==
    /\ pc = "idle"
    /\ run < MaxRuns
    /\ \E sim \in Simulate :
          /\ config' = [config EXCEPT !.simulate = sim]
          /\ cur' = Fresh(sim, fs)
    /\ prev' = cur
    /\ run' = run + 1
    /\ index' = 0
    /\ dirty' = FALSE
    /\ pc' = "loop"
    /\ UNCHANGED <<fs, faults, stack, exitStatus>>

\* lines 555-565: the root is taken for a directory
MainDirectory ==
    /\ pc = "loop"
    /\ index < Len(files)
    /\ LET fileName == files[index + 1]
       IN  /\ TRUE \in S_ISDIR(fs, fileName)
           /\ stack' = <<Activation(fs, faults, fileName)>>
           /\ cur' = [cur EXCEPT !.called = @ \cup {fileName},
                                 !.roots = @ \cup {fileName}]
    /\ pc' = "walk"
    /\ UNCHANGED <<fs, faults, config, run, index, dirty, exitStatus, prev>>

\* lines 567-569 and 575: Directory_process returned to main
MainDirectoryDone ==
    /\ pc = "walk"
    /\ Len(stack) = 1
    /\ Top.pending = {}
    /\ LET fileName == files[index + 1]
           e == Directory_isEmpty(fs, faults, fileName)
       IN  /\ dirty' = (dirty \/ ~e.empty)
           /\ cur' = [Noted(cur, fs, fs, <<>>, e.errors) EXCEPT
                         !.rets = @ \cup {<<fileName, Top.result>>}]
    /\ stack' = <<>>
    /\ index' = index + 1
    /\ pc' = "loop"
    /\ UNCHANGED <<fs, faults, config, run, exitStatus, prev>>

\* lines 570-575: the root is taken for something else
MainNode ==
    /\ pc = "loop"
    /\ index < Len(files)
    /\ LET fileName == files[index + 1]
       IN  /\ FALSE \in S_ISDIR(fs, fileName)
           /\ \E o \in File_process(config, fs, faults, fileName) :
                 /\ fs' = o.fs
                 /\ cur' = [Noted(cur, fs, o.fs, o.lines, o.errors) EXCEPT
                               !.roots = @ \cup {fileName}]
    /\ index' = index + 1
    /\ UNCHANGED <<faults, config, pc, run, dirty, stack, exitStatus, prev>>

\* lines 578-582
MainExit ==
    /\ pc = "loop"
    /\ ~(index < Len(files))
    /\ exitStatus' = IF dirty THEN Errno.ENOTEMPTY ELSE ENONE
    /\ cur' = [cur EXCEPT !.done = TRUE, !.after = fs, !.exit = exitStatus']
    /\ pc' = "idle"
    /\ UNCHANGED <<fs, faults, config, run, index, dirty, stack, prev>>

(***************************************************************************)
(* Directory_process: one action per turn of its readdir() loop, by the    *)
(* case of the switch the entry takes, and one for the return of the       *)
(* recursive call.  readdir() may hand out the entries in any order.       *)
(***************************************************************************)
Reading == pc = "walk" /\ stack # <<>> /\ Top.pending # {}

\* the condition of line 431
Descend(cfg, bname) == ~(cfg.preserveHidden /\ File_isHidden(bname))

\* the condition of line 457
KeepSpecial(cfg) == cfg.preserveSpecial

\* lines 430-432: case DT_DIR, up to the recursive call
EntryDirectory ==
    /\ Reading
    /\ \E e \in Top.pending :
          /\ d_type(fs, e) = "DT_DIR"
          /\ IF Descend(config, fs[e].name)
             THEN /\ Len(stack) < MaxDepth
                  /\ stack' = Append(Advance(e), Activation(fs, faults, e))
                  /\ cur' = [cur EXCEPT !.seen = @ \cup {e}, !.called = @ \cup {e}]
             ELSE /\ stack' = Advance(e)
                  /\ cur' = [cur EXCEPT !.seen = @ \cup {e}]
    /\ UNCHANGED <<fs, faults, config, pc, run, index, dirty, exitStatus, prev>>

\* the condition of line 434 and that of line 435
Collapse(completionState, empty) == completionState = ENONE /\ empty

\* Directory_process handing up the error of a recursive call
Directory_result_propagated(result, completionState) ==
    IF completionState # ENONE THEN completionState ELSE result

\* what Directory_process returns (line 484), given what opendir() left in
\* result and what the recursive call just returned
Directory_result(result, completionState) == result

\* lines 432-446: the recursive call returned to Directory_process
EntryDirectoryDone ==
    /\ pc = "walk"
    /\ Len(stack) > 1
    /\ Top.pending = {}
    /\ LET currentEntryPath == Top.path
           completionState == Top.result
           e == IF completionState = ENONE
                THEN Directory_isEmpty(fs, faults, currentEntryPath)
                ELSE [empty |-> FALSE,
                      errors |-> {Message("Could not process directory",
                                          currentEntryPath, completionState)}]
           outer == [Pop EXCEPT ![Len(stack) - 1].result =
                                    Directory_result(@, completionState)]
       IN  IF Collapse(completionState, e.empty)
           THEN \E u \in File_unlink(config, fs, faults, currentEntryPath) :
                   /\ fs' = u.fs
                   /\ cur' = [Noted(cur, fs, u.fs, u.lines,
                                    e.errors \cup
                                    IF u.rc = -1
                                    THEN {Message("Could not unlink directory",
                                                  currentEntryPath, u.errno)}
                                    ELSE {})
                                EXCEPT !.rets = @ \cup
                                           {<<currentEntryPath, completionState>>}]
                   /\ stack' = outer
           ELSE /\ fs' = fs
                /\ cur' = [Noted(cur, fs, fs, <<>>, e.errors) EXCEPT
                              !.rets = @ \cup {<<currentEntryPath, completionState>>}]
                /\ stack' = outer
    /\ UNCHANGED <<faults, config, pc, run, index, dirty, exitStatus, prev>>

\* lines 452-459: a special file, kept
EntrySpecialKept ==
    /\ Reading
    /\ \E e \in Top.pending :
          /\ d_type(fs, e) \in {"DT_BLK", "DT_CHR", "DT_FIFO", "DT_LNK", "DT_SOCK"}
          /\ KeepSpecial(config)
          /\ stack' = Advance(e)
          /\ cur' = [cur EXCEPT !.seen = @ \cup {e}]
    /\ UNCHANGED <<fs, faults, config, pc, run, index, dirty, exitStatus, prev>>

\* lines 452-473: a regular file, an entry of unknown type, or a special file
\* that falls through to them
EntryFile ==
    /\ Reading
    /\ \E e \in Top.pending :
          /\ \/ d_type(fs, e) \in {"DT_UNKNOWN", "DT_REG"}
             \/ /\ d_type(fs, e) \in {"DT_BLK", "DT_CHR", "DT_FIFO", "DT_LNK", "DT_SOCK"}
                /\ ~KeepSpecial(config)
          /\ \E o \in File_process(config, fs, faults, e) :
                /\ fs' = o.fs
                /\ cur' = [Noted(cur, fs, o.fs, o.lines, o.errors) EXCEPT
                              !.seen = @ \cup {e}]
          /\ stack' = Advance(e)
    /\ UNCHANGED <<faults, config, pc, run, index, dirty, exitStatus, prev>>

Next ==
    \/ MainStart
    \/ MainDirectory
    \/ MainDirectoryDone
    \/ MainNode
    \/ MainExit
    \/ EntryDirectory
    \/ EntryDirectoryDone
    \/ EntrySpecialKept
    \/ EntryFile

Spec == Init /\ [][Next]_vars

\* the program is one thread that runs until main() returns: a step that can
\* be taken is taken.  Termination is checked on the trees with a link to root/.
FairSpec == LinkInit /\ [][Next]_vars /\ WF_vars(Next)

(***************************************************************************)
(* Vocabulary of the properties, stated on names and trees without the     *)
(* program's own functions.                                                *)
(***************************************************************************)
Member(list, s) == \E i \in 1..Len(list) : list[i] = s

\* the name is a clobber name, or what follows its last '.' is a clobber extension
Matches(cfg, name) ==
    \/ Member(cfg.clobberNames, name)
    \/ \E k \in 1..Len(name) :
          /\ name[k] = "."
          /\ \A j \in (k + 1)..Len(name) : name[j] # "."
          /\ Member(cfg.clobberExtensions, SubSeq(name, k + 1, Len(name)))

StartsWithDot(name) == name # <<>> /\ Head(name) = "."

Special(f, n) == f[n].dknown /\ f[n].type \in {"FIFO", "LNK", "SOCK"}

Subtree(d) == {n \in Nodes : n = d \/ d \in Ancestors(n)}

\* a run of main() has finished
Finished == pc = "idle" /\ cur.done

Removed(r) == {n \in Nodes : r.before[n].present /\ ~r.after[n].present}

Logged(r) == {r.lines[i] : i \in 1..Len(r.lines)}

NoFaults == faults = Refusing({}, {})

RootsExist(r) == \A i \in 1..Len(files) : r.before[files[i]].present

\* the place of x in seq
Position(seq, x) == CHOOSE i \in 1..Len(seq) : seq[i] = x

\* d and all it held are gone, each entry removed before its parent
CollapsedInOrder(r, d) ==
    /\ \A x \in Subtree(d) : ~r.after[x].present
    /\ \A x \in Subtree(d) :
          r.before[x].present => \E i \in 1..Len(r.unlinked) : r.unlinked[i] = x
    /\ \A x, y \in Subtree(d) :
          (r.before[x].present /\ r.before[y].present /\ x \in Ancestors(y))
          => Position(r.unlinked, y) < Position(r.unlinked, x)

CleanReport(r) ==
    r.exit = ENONE
    <=> \A i \in 1..Len(files) :
           r.after[files[i]].type = "DIR" => Children(r.after, files[i]) = {}

RECURSIVE OnlyMatchingFiles(_, _, _)
OnlyMatchingFiles(cfg, f, d) ==
    \A c \in Children(f, d) :
       IF f[c].type = "DIR" THEN OnlyMatchingFiles(cfg, f, c)
       ELSE Matches(cfg, f[c].name)

\* what the preserve options and the file types keep from being removed
Kept(cfg, name) == cfg.preserveHidden /\ StartsWithDot(name)

RemovableFile(cfg, f, c) ==
    /\ Matches(cfg, f[c].name)
    /\ \/ f[c].type = "REG"
       \/ f[c].type \in {"FIFO", "SOCK"} /\ ~cfg.preserveSpecial

RECURSIVE Collapsible(_, _, _)
Collapsible(cfg, f, d) ==
    /\ ~Kept(cfg, f[d].name)
    /\ \A c \in Children(f, d) :
          IF f[c].type = "DIR" THEN Collapsible(cfg, f, c)
          ELSE RemovableFile(cfg, f, c)

WalkReaches(cfg, f, d) ==
    \A a \in Ancestors(d) : Parent[a] # 0 => ~Kept(cfg, f[a].name)

\* opendir(path) fails
CannotOpen(f, flt, path) ==
    \/ Resolve(f, path) = 0
    \/ f[Resolve(f, path)].type # "DIR"
    \/ Resolve(f, path) \in flt.noOpen

TakenForDirectory(r) == {p \in r.called : Parent[p] = 0}

AllRoots == {files[i] : i \in 1..Len(files)}

(***************************************************************************)
(* C1.  A run removes a non-directory entry only if its name is a clobber  *)
(* name or its extension a clobber extension: at every moment of a run,    *)
(* every entry that was there when the run began, is not a directory and   *)
(* matches neither rule is still there, with the same type.                *)
(***************************************************************************)
C1_OnlyMatchingRemoved ==
    \A n \in Nodes :
       (cur.before[n].present /\ cur.before[n].type # "DIR"
          /\ ~Matches(config, cur.before[n].name))
       => fs[n] = cur.before[n]

\* a real run has removed a matching file and walked past one that matches nothing
C1_Witness ==
    /\ Finished
    /\ \E n \in Removed(cur) : cur.before[n].type # "DIR"
    /\ \E m \in cur.seen :
          /\ fs[m].present
          /\ fs[m].type # "DIR"
          /\ StartsWithDot(fs[m].name)
          /\ ~Matches(config, fs[m].name)
    /\ \E m \in cur.seen :
          fs[m].present /\ ~fs[m].dknown /\ ~Matches(config, fs[m].name)

(***************************************************************************)
(* C2.  Simulate mode never changes the file system: throughout a run      *)
(* started with --simulate the tree is the one the run began with.         *)
(***************************************************************************)
C2_SimulateFrame == cur.simulate => fs = cur.before

\* a simulated run has finished, having logged a file and a directory found empty
C2_Witness ==
    /\ Finished
    /\ cur.simulate
    /\ \E n \in Logged(cur) : fs[n].type = "DIR"
    /\ \E n \in Logged(cur) : fs[n].type # "DIR"

(***************************************************************************)
(* C3.  Cascading collapse.  The claim as stated: in a real run without    *)
(* I/O failures, every directory below a root that holds, transitively,    *)
(* nothing but files matching a clobber rule is removed with all it holds, *)
(* children before parents, and the run exits clean exactly when the root  *)
(* directories are left empty.                                             *)
(***************************************************************************)
C3_Original ==
    (Finished /\ ~cur.simulate /\ NoFaults /\ RootsExist(cur))
    => /\ \A d \in Nodes :
             (Parent[d] # 0 /\ cur.before[d].present /\ cur.before[d].type = "DIR"
                /\ OnlyMatchingFiles(config, cur.before, d))
             => CollapsedInOrder(cur, d)
       /\ CleanReport(cur)

(***************************************************************************)
(* C3, amended.  The same, for the directories the walk reaches and may    *)
(* enter (none of them, nor of the directories above them below the root,  *)
(* hidden while preserveHidden is set) and whose matching files are        *)
(* regular files, files of unreported type or, with preserveSpecial        *)
(* unset, special files other than symbolic links.                         *)
(***************************************************************************)
C3_Cascade ==
    (Finished /\ ~cur.simulate /\ NoFaults /\ RootsExist(cur))
    => /\ \A d \in Nodes :
             (Parent[d] # 0 /\ cur.before[d].present /\ cur.before[d].type = "DIR"
                /\ WalkReaches(config, cur.before, d)
                /\ Collapsible(config, cur.before, d))
             => CollapsedInOrder(cur, d)
       /\ CleanReport(cur)

\* root/a/b/f.tmp: the file, root/a/b and root/a were removed in that order, and
\* the run exited dirty because root/ kept an entry
C3_Witness ==
    /\ Finished /\ ~cur.simulate /\ NoFaults /\ RootsExist(cur)
    /\ cur.before[4].present
    /\ Collapsible(config, cur.before, 2)
    /\ \E i \in 1..Len(cur.unlinked) :
          /\ i + 2 <= Len(cur.unlinked)
          /\ cur.unlinked[i] = 4 /\ cur.unlinked[i + 1] = 3 /\ cur.unlinked[i + 2] = 2
    /\ Children(fs, 1) # {}
    /\ cur.exit = Errno.ENOTEMPTY

(***************************************************************************)
(* C4.  Idempotence: when main() is run a second time with the same        *)
(* arguments and configuration, the second run changes nothing and writes  *)
(* no error.  Stated for a first run that found every root argument and    *)
(* wrote no error itself.                                                  *)
(***************************************************************************)
C4_Idempotent ==
    (Finished /\ prev.done /\ prev.simulate = cur.simulate
       /\ RootsExist(prev) /\ prev.errors = {})
    => /\ cur.after = cur.before
       /\ cur.errors = {}

(***************************************************************************)
(* C5.  With preserveHidden set, a directory the walk reads is skipped --  *)
(* Directory_process is not called on it and nothing at or below it        *)
(* changes -- if and only if its name begins with '.'; and the regular     *)
(* files next to it are still removed exactly when they match a rule (in   *)
(* a real run whose environment refuses nothing).                          *)
(***************************************************************************)
C5_PreserveHidden ==
    config.preserveHidden
    => /\ \A e \in cur.seen :
             cur.before[e].type = "DIR"
             => /\ e \notin cur.called <=> StartsWithDot(cur.before[e].name)
                /\ StartsWithDot(cur.before[e].name)
                   => \A x \in Subtree(e) : fs[x] = cur.before[x]
       /\ (Finished /\ ~cur.simulate /\ NoFaults)
          => \A n \in cur.seen :
                (cur.before[n].type = "REG" /\ cur.before[n].dknown)
                => (~fs[n].present <=> Matches(config, cur.before[n].name))

\* root/.git was skipped with root/.git/x.tmp matching a rule, root/a was entered,
\* and of the regular files read one was removed and one kept
C5_Witness ==
    /\ Finished /\ ~cur.simulate /\ NoFaults
    /\ config.preserveHidden
    /\ 5 \in cur.seen /\ 5 \notin cur.called
    /\ Matches(config, fs[6].name) /\ fs[6].present
    /\ 2 \in cur.seen /\ 2 \in cur.called
    /\ \E n \in cur.seen : cur.before[n].type = "REG" /\ ~fs[n].present
    /\ \E n \in cur.seen : cur.before[n].type = "REG" /\ fs[n].present

(***************************************************************************)
(* C6.  Special files: once a real run, in an environment that refuses     *)
(* nothing, has read a block or character device, named pipe, symbolic     *)
(* link or socket, the entry is still there if preserveSpecial is set,     *)
(* and is gone if preserveSpecial is unset and its name matches a rule.    *)
(***************************************************************************)
C6_SpecialPolicy ==
    (~cur.simulate /\ NoFaults)
    => \A e \in cur.seen :
          Special(cur.before, e)
          => /\ config.preserveSpecial => fs[e].present
             /\ (~config.preserveSpecial /\ Matches(config, cur.before[e].name))
                => ~fs[e].present

(***************************************************************************)
(* C7.  Exit status.  The claim as stated: a run exits with ENOTEMPTY if   *)
(* some root argument that is a directory is left non-empty, and with 0    *)
(* otherwise.  Stated for runs that found every root argument.             *)
(***************************************************************************)
C7_Original ==
    (Finished /\ RootsExist(cur))
    => cur.exit =
          IF \E i \in 1..Len(files) :
                /\ cur.after[files[i]].present
                /\ cur.after[files[i]].type = "DIR"
                /\ Children(cur.after, files[i]) # {}
          THEN Errno.ENOTEMPTY
          ELSE ENONE

(***************************************************************************)
(* C7, amended.  A run exits with ENOTEMPTY if some root argument that     *)
(* main() took for a directory is left non-empty or cannot be opened (an   *)
(* unreadable directory, or a path that names none), and with 0 otherwise. *)
(***************************************************************************)
C7_ExitStatus ==
    Finished
    => cur.exit =
          IF \E p \in TakenForDirectory(cur) :
                \/ CannotOpen(cur.after, faults, p)
                \/ Children(cur.after, Resolve(cur.after, p)) # {}
          THEN Errno.ENOTEMPTY
          ELSE ENONE

\* every root directory is empty, one of them cannot be opened, and the run
\* exited with ENOTEMPTY
C7_Witness ==
    /\ Finished /\ RootsExist(cur)
    /\ \A i \in 1..Len(files) :
          fs[files[i]].type = "DIR" /\ Children(fs, files[i]) = {}
    /\ 8 \in faults.noOpen
    /\ Removed(cur) # {}
    /\ cur.exit = Errno.ENOTEMPTY

(***************************************************************************)
(* C8.  Errors are recovered locally.  When a run has finished: every call *)
(* of Directory_process returned ENONE unless its own directory could not  *)
(* be opened; every directory that was opened had all its entries handed   *)
(* to the switch, whatever failed among them; every root was handled; and  *)
(* no directory whose call returned an error was removed.                  *)
(***************************************************************************)
C8_LocalRecovery ==
    Finished
    => /\ cur.called = {r[1] : r \in cur.rets}
       /\ \A r \in cur.rets :
             /\ r[2] # ENONE <=> CannotOpen(cur.before, faults, r[1])
             /\ r[2] = ENONE
                => Children(cur.before, Resolve(cur.before, r[1])) \subseteq cur.seen
             /\ r[2] # ENONE => cur.after[r[1]] = cur.before[r[1]]
       /\ cur.roots = {files[i] : i \in 1..Len(files)}

\* root/a could not be opened or an entry could not be removed; the error was
\* logged, and the rest of root/ and the second root were handled all the same
C8_Witness ==
    /\ Finished /\ ~cur.simulate
    /\ \/ <<2, Errno.EACCES>> \in cur.rets /\ fs[2].present
       \/ \E m \in cur.errors : m.errno = Errno.EACCES /\ m.path \in {3, 4}
    /\ {5, 7} \subseteq cur.seen
    /\ <<1, ENONE>> \in cur.rets
    /\ 8 \in cur.roots
    /\ 8 \in Removed(cur)

(***************************************************************************)
(* C9.  Simulate-mode reporting: a simulated run logs "unlink(path)"       *)
(* exactly once for each entry that the real run on the same tree removes, *)
(* and for nothing else.  Stated for a real run that wrote no error, in an *)
(* environment that refuses nothing.                                       *)
(***************************************************************************)
C9_SimulateReportsRealRun ==
    (Finished /\ prev.done /\ prev.simulate /\ ~cur.simulate
       /\ NoFaults /\ RootsExist(cur) /\ cur.errors = {})
    => /\ Logged(prev) = Removed(cur)
       /\ \A i, j \in 1..Len(prev.lines) : prev.lines[i] = prev.lines[j] => i = j

(***************************************************************************)
(* C10.  Directory_process recurses only into entries of type directory,   *)
(* never through a symbolic link, so every run terminates, having handled  *)
(* every root -- also when a link points at a directory above it.          *)
(***************************************************************************)
C10_Terminates ==
    /\ [](\A p \in cur.called : Parent[p] # 0 => fs[p].type = "DIR")
    /\ [](Len(stack) < MaxDepth)
    /\ [](pc # "idle" => <>(Finished /\ cur.roots = AllRoots))

\* a run has finished that read root/l.tmp, a link to root/, and did not enter it
C10_Witness ==
    /\ Finished
    /\ 7 \in cur.seen
    /\ fs[7].present /\ fs[7].type = "LNK" /\ fs[7].target = 1
    /\ 7 \notin cur.called
    /\ cur.roots = AllRoots

=============================================================================
